---- MODULE Spec2Model ----
(***************************************************************************)
(* Model of pkg/generator/constructor.go: the generator of New<Type>       *)
(* constructors (hasDefaults, generate, formatDefaultValue,                *)
(* tryFormatSlice, formatSliceValue).                                      *)
(*                                                                         *)
(* Text.  A Go string is modelled as the non-empty sequence of its lines   *)
(* (the string split at "\n"); a line is a sequence of tokens (strings).   *)
(* Syntactic braces are always the tokens "{" and "}", so brace balance    *)
(* can be counted; a quoted Go string is the single token "\"...\"".       *)
(***************************************************************************)
EXTENDS Integers, Sequences, FiniteSets, TLC

----------------------------------------------------------------------------
(* Bounds of the model *)

\* most fields a struct declaration has
MaxFields == 2
\* most executions of the generator on the same declaration
MaxRuns == 2
\* largest indentation level of the emitter handed to the closure
MaxIndent == 1
\* largest number a decimal numeral of a duration string is read back as
MaxNumeral == 99

----------------------------------------------------------------------------
(* Strings as line/token sequences *)

EmptyText == << <<>> >>

\* the text "\n"
NewlineText == << <<>>, <<>> >>

\* a one-line text of the given tokens
Line(tokens) == << tokens >>

\* string concatenation a + b
Cat(a, b) == SubSeq(a, 1, Len(a) - 1) \o << a[Len(a)] \o b[1] >> \o Tail(b)

RECURSIVE CatAll(_)
CatAll(texts) ==
    IF Len(texts) = 0 THEN EmptyText ELSE Cat(Head(texts), CatAll(Tail(texts)))

\* strconv.Quote / %q of a string without characters that need escaping
Quote(s) == "\"" \o s \o "\""

IsSpaceToken(t) == t \in {" ", "  ", "\t"}

RECURSIVE TrimLeft(_)
TrimLeft(text) ==
    IF Len(text[1]) > 0 /\ IsSpaceToken(text[1][1])
        THEN TrimLeft(<< Tail(text[1]) >> \o Tail(text))
    ELSE IF Len(text[1]) = 0 /\ Len(text) > 1
        THEN TrimLeft(Tail(text))
    ELSE text

RECURSIVE TrimRight(_)
TrimRight(text) ==
    LET n == Len(text)
        last == text[n]
    IN  IF Len(last) > 0 /\ IsSpaceToken(last[Len(last)])
            THEN TrimRight(SubSeq(text, 1, n - 1) \o << SubSeq(last, 1, Len(last) - 1) >>)
        ELSE IF Len(last) = 0 /\ n > 1
            THEN TrimRight(SubSeq(text, 1, n - 1))
        ELSE text

\* strings.TrimSpace
TrimSpace(text) == TrimRight(TrimLeft(text))

----------------------------------------------------------------------------
(* Default values: what a JSON/YAML default decodes to (interface{}) *)

VNil == [kind |-> "nil"]
VString(s) == [kind |-> "string", s |-> s]
VNumber(n) == [kind |-> "number", n |-> n]
VSlice(elems) == [kind |-> "slice", elems |-> elems]
VMap(m) == [kind |-> "map", m |-> m]
\* a slice value that is not a []interface{}, such as []string{...}
VTypedSlice(type, elems) == [kind |-> "typedslice", type |-> type, elems |-> elems]

\* the keys a map may hold, in sort.Strings order
KeyAlphabet == << "a", "b" >>

KeyRank(k) == CHOOSE i \in 1..Len(KeyAlphabet) : KeyAlphabet[i] = k

\* the orders in which a Go map may hand out its keys ("for k := range m")
KeyOrders == { o \in [1..Len(KeyAlphabet) -> 1..Len(KeyAlphabet)] :
                 \A i, j \in 1..Len(KeyAlphabet) : i # j => o[i] # o[j] }

\* the keys of m as "range m" yields them under iteration order ord
RangeKeys(m, ord) ==
    LET all == [i \in 1..Len(KeyAlphabet) |-> KeyAlphabet[ord[i]]]
    IN  SelectSeq(all, LAMBDA k : k \in DOMAIN m)

\* sort.Strings
SortStrings(names) ==
    CHOOSE s \in [1..Len(names) -> {names[i] : i \in 1..Len(names)}] :
        /\ \A i \in 1..Len(names) : \E j \in 1..Len(names) : s[j] = names[i]
        /\ \A i, j \in 1..Len(names) : i < j => KeyRank(s[i]) < KeyRank(s[j])

\* sortedKeys: the keys of the map, collected by ranging over it, then sorted
sortedKeys(m, ord) == SortStrings(RangeKeys(m, ord))

\* upperFirst: the key with its first letter in upper case
upperFirst(k) ==
    CASE k = "a" -> "A"
      [] k = "b" -> "B"
      [] OTHER -> k

----------------------------------------------------------------------------
(* litter.Sdump of a default value (github.com/sanity-io/litter) *)

\* litter's indentation: two spaces per nesting level
LitterIndent(depth) == [i \in 1..depth |-> "  "]

RECURSIVE LitterDump(_, _, _)
RECURSIVE LitterSliceEntries(_, _, _)
RECURSIVE LitterMapEntries(_, _, _, _)

\* one "<value>," line per element, at the given depth
LitterSliceEntries(elems, depth, ord) ==
    IF Len(elems) = 0 THEN EmptyText
    ELSE CatAll(<< Line(LitterIndent(depth)),
                   LitterDump(Head(elems), depth, ord),
                   Line(<< "," >>),
                   NewlineText,
                   LitterSliceEntries(Tail(elems), depth, ord) >>)

\* one "<key>: <value>," line per key, at the given depth
LitterMapEntries(m, keys, depth, ord) ==
    IF Len(keys) = 0 THEN EmptyText
    ELSE CatAll(<< Line(LitterIndent(depth) \o << Quote(Head(keys)), ": " >>),
                   LitterDump(m[Head(keys)], depth, ord),
                   Line(<< "," >>),
                   NewlineText,
                   LitterMapEntries(m, Tail(keys), depth, ord) >>)

\* the dump of value v nested depth levels deep; litter collects a map's
\* keys by reflection (in iteration order ord) and sorts them before dumping
LitterDump(v, depth, ord) ==
    CASE v.kind = "nil" -> Line(<< "nil" >>)
      [] v.kind = "string" -> Line(<< Quote(v.s) >>)
      [] v.kind = "number" -> Line(<< ToString(v.n) >>)
      [] v.kind \in {"slice", "typedslice"} ->
            LET type == IF v.kind = "slice" THEN "[]interface {}" ELSE v.type
            IN  IF Len(v.elems) = 0 THEN Line(<< type, "{", "}" >>)
                ELSE CatAll(<< Line(<< type, "{" >>),
                               NewlineText,
                               LitterSliceEntries(v.elems, depth + 1, ord),
                               Line(LitterIndent(depth) \o << "}" >>) >>)
      [] v.kind = "map" ->
            IF DOMAIN v.m = {} THEN Line(<< "map[string]interface {}", "{", "}" >>)
            ELSE CatAll(<< Line(<< "map[string]interface {}", "{" >>),
                           NewlineText,
                           LitterMapEntries(v.m, SortStrings(RangeKeys(v.m, ord)),
                                            depth + 1, ord),
                           Line(LitterIndent(depth) \o << "}" >>) >>)

\* litter.Sdump(value)
Sdump(v, ord) == LitterDump(v, 0, ord)

----------------------------------------------------------------------------
(* codegen.Emitter: a string builder with an indentation level *)

\* codegen.NewEmitter(maxLineLength)
NewEmitter(maxLineLength) ==
    [sb |-> EmptyText, maxLineLength |-> maxLineLength, start |-> TRUE, indent |-> 0]

\* the tabs written at the start of a line (none for a level <= 0)
Tabs(n) == [i \in 1..n |-> "\t"]

\* Emitter.Printf: indent if at the start of a line, then write the text
Printf(e, text) ==
    LET indented == IF e.start THEN Cat(e.sb, Line(Tabs(e.indent))) ELSE e.sb
    IN  [e EXCEPT !.sb = Cat(indented, text), !.start = FALSE]

\* Emitter.Newline
Newline(e) == [e EXCEPT !.sb = Cat(@, NewlineText), !.start = TRUE]

\* Emitter.Printlnf
Printlnf(e, text) == Newline(Printf(e, text))

\* Emitter.Indent
Indent(e, n) == [e EXCEPT !.indent = @ + n]

\* Emitter.String
String(e) == e.sb

\* Emitter.MaxLineLength
MaxLineLength(e) == e.maxLineLength

\* the words joined by single spaces, as tokens
RECURSIVE JoinWords(_)
JoinWords(words) ==
    IF Len(words) = 0 THEN <<>>
    ELSE IF Len(words) = 1 THEN << words[1] >>
    ELSE << words[1], " " >> \o JoinWords(Tail(words))

\* wordwrap.WrapString: greedy wrapping of the words into lines of at most
\* limit characters (a word longer than the limit gets a line of its own);
\* cur is the line being filled and width its length in characters
RECURSIVE WrapWords(_, _, _, _)
WrapWords(words, limit, cur, width) ==
    IF Len(words) = 0 THEN (IF Len(cur) = 0 THEN <<>> ELSE << cur >>)
    ELSE LET w == Head(words)
         IN  IF Len(cur) = 0
                 THEN WrapWords(Tail(words), limit, << w >>, Len(w))
             ELSE IF width + 1 + Len(w) > limit
                 THEN << cur >> \o WrapWords(Tail(words), limit, << w >>, Len(w))
             ELSE WrapWords(Tail(words), limit, Append(cur, w), width + 1 + Len(w))

RECURSIVE PrintCommentLines(_, _)
PrintCommentLines(e, lines) ==
    IF Len(lines) = 0 THEN e
    ELSE PrintCommentLines(Printlnf(e, Line(<< "// " >> \o JoinWords(Head(lines)))),
                           Tail(lines))

\* Emitter.Commentf: the comment, wrapped to the line length, one "// " line
\* per wrapped line
Commentf(e, words) ==
    PrintCommentLines(e, WrapWords(words, e.maxLineLength, <<>>, 0))

----------------------------------------------------------------------------
(* ISO 8601 durations (github.com/sosodev/duration) and Go durations.     *)
(* Durations are counted in whole seconds.                                 *)

\* the characters of the strings the model uses as defaults
Chars(s) ==
    CASE s = "PT30S" -> << "P", "T", "3", "0", "S" >>
      [] s = "-P1DT90M" -> << "-", "P", "1", "D", "T", "9", "0", "M" >>
      [] s = "P30S" -> << "P", "3", "0", "S" >>
      [] s = "" -> <<>>
      [] OTHER -> << s >>

Digits == {"0", "1", "2", "3", "4", "5", "6", "7", "8", "9"}

\* strconv: the number a decimal numeral denotes, -1 if it is not a numeral
ParseNumeral(num) ==
    IF \E n \in 0..MaxNumeral : ToString(n) = num
        THEN CHOOSE n \in 0..MaxNumeral : ToString(n) = num
        ELSE -1

ZeroDuration ==
    [ok |-> TRUE, negative |-> FALSE, years |-> 0, months |-> 0, weeks |-> 0,
     days |-> 0, hours |-> 0, minutes |-> 0, seconds |-> 0]

\* duration.Parse's loop over the characters: state is "period" or "time",
\* num the digits read since the last designator, d the duration so far
RECURSIVE ParseIsoLoop(_, _, _, _)
ParseIsoLoop(chars, state, num, d) ==
    IF Len(chars) = 0 THEN d
    ELSE LET c == Head(chars)
             rest == Tail(chars)
             n == ParseNumeral(num)
             fail == [d EXCEPT !.ok = FALSE]
             set(field) == IF n < 0 THEN fail
                           ELSE ParseIsoLoop(rest, state, "", [d EXCEPT ![field] = n])
         IN  CASE c = "P" -> IF state # "period" THEN fail
                             ELSE ParseIsoLoop(rest, state, num, d)
               [] c = "T" -> ParseIsoLoop(rest, "time", num, d)
               [] c = "Y" -> IF state # "period" THEN fail ELSE set("years")
               [] c = "M" -> IF state = "period" THEN set("months") ELSE set("minutes")
               [] c = "W" -> IF state # "period" THEN fail ELSE set("weeks")
               [] c = "D" -> IF state # "period" THEN fail ELSE set("days")
               [] c = "H" -> IF state # "time" THEN fail ELSE set("hours")
               [] c = "S" -> IF state # "time" THEN fail ELSE set("seconds")
               [] c \in Digits -> ParseIsoLoop(rest, state, num \o c, d)
               [] OTHER -> fail

\* duration.Parse: "P..." or "-P...", anything else is an error
ParseIso(s) ==
    LET chars == Chars(s)
    IN  IF Len(chars) >= 1 /\ chars[1] = "P"
            THEN ParseIsoLoop(chars, "period", "", ZeroDuration)
        ELSE IF Len(chars) >= 2 /\ chars[1] = "-" /\ chars[2] = "P"
            THEN ParseIsoLoop(Tail(chars), "period", "",
                              [ZeroDuration EXCEPT !.negative = TRUE])
        ELSE [ZeroDuration EXCEPT !.ok = FALSE]

\* Duration.ToTimeDuration, in seconds (a year is 365 days, a month a
\* twelfth of a year)
ToTimeDuration(d) ==
    LET t == d.years * 31536000 + d.months * 2628000 + d.weeks * 604800
             + d.days * 86400 + d.hours * 3600 + d.minutes * 60 + d.seconds
    IN  IF d.negative THEN 0 - t ELSE t

\* time.Duration.String of a whole number of seconds, as tokens:
\* "0s", "30s", "1m30s", "25h30m0s", with a leading "-" if negative
DurationString(t) ==
    LET u == IF t < 0 THEN 0 - t ELSE t
        sign == IF t < 0 THEN << "-" >> ELSE <<>>
        h == u \div 3600
        m == (u % 3600) \div 60
        sec == u % 60
    IN  IF u = 0 THEN << "0", "s" >>
        ELSE IF u < 60 THEN sign \o << ToString(sec), "s" >>
        ELSE IF u < 3600 THEN sign \o << ToString(m), "m", ToString(sec), "s" >>
        ELSE sign \o << ToString(h), "h", ToString(m), "m", ToString(sec), "s" >>

UnitSeconds(u) ==
    CASE u = "h" -> 3600
      [] u = "m" -> 60
      [] u = "s" -> 1
      [] OTHER -> -1

\* time.ParseDuration's loop: a numeral and a unit, repeatedly
RECURSIVE ParseGoLoop(_, _)
ParseGoLoop(tokens, acc) ==
    IF Len(tokens) = 0 THEN [ok |-> TRUE, d |-> acc]
    ELSE IF Len(tokens) = 1 THEN [ok |-> FALSE, d |-> 0]
    ELSE LET n == ParseNumeral(tokens[1])
             u == UnitSeconds(tokens[2])
         IN  IF n < 0 \/ u < 0 THEN [ok |-> FALSE, d |-> 0]
             ELSE ParseGoLoop(Tail(Tail(tokens)), acc + n * u)

\* time.ParseDuration of a Go duration string given as tokens
ParseDuration(tokens) ==
    LET neg == Len(tokens) > 0 /\ tokens[1] = "-"
        body == IF Len(tokens) > 0 /\ tokens[1] \in {"-", "+"} THEN Tail(tokens) ELSE tokens
        r == ParseGoLoop(body, 0)
    IN  IF body = << "0" >> THEN [ok |-> TRUE, d |-> 0]
        ELSE IF Len(body) = 0 THEN [ok |-> FALSE, d |-> 0]
        ELSE IF r.ok /\ neg THEN [ok |-> TRUE, d |-> 0 - r.d]
        ELSE r

----------------------------------------------------------------------------
(* codegen.Type: the type of a struct field *)

NamedType(name) == [kind |-> "named", name |-> name]
DurationType == [kind |-> "duration", name |-> "time.Duration"]
PrimitiveType(name) == [kind |-> "primitive", name |-> name]
ArrayType(elem) == [kind |-> "array", elem |-> elem]
\* a type whose Generate returns an error
UnrenderableType == [kind |-> "unrenderable", name |-> "?"]

\* Type.Generate(emitter): writes the type's Go text, or fails
RECURSIVE TypeGenerate(_, _)
TypeGenerate(type, e) ==
    CASE type.kind = "array" -> TypeGenerate(type.elem, Printf(e, Line(<< "[]" >>)))
      [] type.kind = "unrenderable" -> [e |-> e, ok |-> FALSE]
      [] OTHER -> [e |-> Printf(e, Line(<< type.name >>)), ok |-> TRUE]

----------------------------------------------------------------------------
(* formatDefaultValue and its helpers *)

NoError == "nil"
ErrDefaultDurationIsNotAString == "ErrDefaultDurationIsNotAString"
ErrDurationIsEmpty == "ErrDurationIsEmpty"
ErrCannotConvertISO8601ToGoFormat == "ErrCannotConvertISO8601ToGoFormat"
ErrCannotFindSlideToDump == "ErrCannotFindSlideToDump"
ErrInvalidDefaultValue == "ErrInvalidDefaultValue"
ErrCannotDumpDefaultSlice == "ErrCannotDumpDefaultSlice"

\* the name of the catch-all field generate skips
additionalProperties == "AdditionalProperties"

Failure(err) == [str |-> EmptyText, err |-> err]
Success(text) == [str |-> text, err |-> NoError]

\* tryFormatSlice: nil iff the value is a []interface{}
tryFormatSlice(defaultValue) ==
    IF defaultValue.kind \notin {"slice", "typedslice"} THEN ErrCannotFindSlideToDump
    ELSE IF defaultValue.kind # "slice" THEN ErrInvalidDefaultValue
    ELSE NoError

\* the loop of formatSliceValue: one Printlnf("%s,", litter.Sdump(value))
\* per element, in the order of the slice
RECURSIVE PrintSliceValues(_, _, _)
PrintSliceValues(e, df, ord) ==
    IF Len(df) = 0 THEN e
    ELSE PrintSliceValues(Printlnf(e, Cat(Sdump(Head(df), ord), Line(<< "," >>))),
                          Tail(df), ord)

\* formatSliceValue without its case for the empty slice
formatSliceValueNoEmptyCase(fieldType, defaultValue, maxLineLen, ord) ==
    LET g == TypeGenerate(fieldType, NewEmitter(maxLineLen))
    IN  IF ~g.ok THEN Failure(ErrCannotDumpDefaultSlice)
        ELSE IF defaultValue.kind # "slice" THEN Failure(ErrInvalidDefaultValue)
        ELSE Success(String(Printf(PrintSliceValues(Printlnf(g.e, Line(<< "{" >>)),
                                                    defaultValue.elems, ord),
                                   Line(<< "}" >>))))

\* formatSliceValue
formatSliceValue(fieldType, defaultValue, maxLineLen, ord) ==
    LET g == TypeGenerate(fieldType, NewEmitter(maxLineLen))
        tmpEmitter == g.e
    IN  IF ~g.ok THEN Failure(ErrCannotDumpDefaultSlice)
        ELSE IF defaultValue.kind # "slice" THEN Failure(ErrInvalidDefaultValue)
        ELSE IF Len(defaultValue.elems) = 0
            THEN Success(Cat(String(tmpEmitter), Line(<< "{", "}" >>)))
        ELSE Success(String(Printf(PrintSliceValues(Printlnf(tmpEmitter, Line(<< "{" >>)),
                                                    defaultValue.elems, ord),
                                   Line(<< "}" >>))))

\* the keys as the map hands them out, not sorted
namedFieldKeysUnsorted(dvm, ord) == RangeKeys(dvm, ord)

\* the keys of the default object in the order the named-type branch visits them
namedFieldKeys(dvm, ord) == sortedKeys(dvm, ord)

\* the loop of the named-type branch: "\n<Key>: <dump>," per key
RECURSIVE namedFields(_, _, _)
namedFields(dvm, keys, ord) ==
    IF Len(keys) = 0 THEN EmptyText
    ELSE CatAll(<< NewlineText,
                   Line(<< upperFirst(Head(keys)), ": " >>),
                   Sdump(dvm[Head(keys)], ord),
                   Line(<< "," >>),
                   namedFields(dvm, Tail(keys), ord) >>)

\* the named-type branch calling the named type's constructor instead
formatNamedValueViaConstructor(nt, dvm, ord) ==
    Success(Line(<< "New" \o nt.name \o "()" >>))

\* the named-type branch: "<Name>{<fields>}"
formatNamedValue(nt, dvm, ord) ==
    LET fields == namedFields(dvm, namedFieldKeys(dvm, ord), ord)
        closed == IF fields # EmptyText THEN Cat(fields, NewlineText) ELSE fields
    IN  Success(CatAll(<< Line(<< nt.name, "{" >>), closed, Line(<< "}" >>) >>))

\* the text around the quoted Go duration string
DurationExprHead == "func() time.Duration "
DurationExprCall == " d, _ := time.ParseDuration("
DurationExprTail == "); return d "

\* the duration branch emitting the ISO 8601 string itself for
\* time.ParseDuration to parse at call time
formatDurationValueIsoLiteral(defaultValue) ==
    IF defaultValue.kind # "string" THEN Failure(ErrDefaultDurationIsNotAString)
    ELSE IF defaultValue.s = "" THEN Failure(ErrDurationIsEmpty)
    ELSE IF ~ParseIso(defaultValue.s).ok THEN Failure(ErrCannotConvertISO8601ToGoFormat)
    ELSE Success(Line(<< DurationExprHead, "{", DurationExprCall, "\"" >>
                      \o Chars(defaultValue.s)
                      \o << "\"", DurationExprTail, "}", "()" >>))

\* the duration branch without its check for the empty string
formatDurationValueNoEmptyCheck(defaultValue) ==
    IF defaultValue.kind # "string" THEN Failure(ErrDefaultDurationIsNotAString)
    ELSE LET d == ParseIso(defaultValue.s)
         IN  IF ~d.ok THEN Failure(ErrCannotConvertISO8601ToGoFormat)
             ELSE Success(Line(<< DurationExprHead, "{", DurationExprCall, "\"" >>
                               \o DurationString(ToTimeDuration(d))
                               \o << "\"", DurationExprTail, "}", "()" >>))

\* the duration branch
formatDurationValue(defaultValue) ==
    IF defaultValue.kind # "string" THEN Failure(ErrDefaultDurationIsNotAString)
    ELSE IF defaultValue.s = "" THEN Failure(ErrDurationIsEmpty)
    ELSE LET d == ParseIso(defaultValue.s)
             goDurationStr == DurationString(ToTimeDuration(d))
         IN  IF ~d.ok THEN Failure(ErrCannotConvertISO8601ToGoFormat)
             ELSE Success(Line(<< DurationExprHead, "{", DurationExprCall, "\"" >>
                               \o goDurationStr
                               \o << "\"", DurationExprTail, "}", "()" >>))

\* formatDefaultValue(fieldType, defaultValue, maxLineLen); ord is the order
\* in which this execution's maps hand out their keys
formatDefaultValue(fieldType, defaultValue, maxLineLen, ord) ==
    IF fieldType.kind = "named" /\ defaultValue.kind = "map"
        THEN formatNamedValue(fieldType, defaultValue.m, ord)
    ELSE IF fieldType.kind = "duration"
        THEN formatDurationValue(defaultValue)
    ELSE IF tryFormatSlice(defaultValue) = NoError
        THEN formatSliceValue(fieldType, defaultValue, maxLineLen, ord)
    ELSE Success(TrimSpace(Sdump(defaultValue, ord)))

----------------------------------------------------------------------------
(* constructorGenerator *)

\* hasDefaults returning from inside the loop at the first field
hasDefaultsFirstFieldOnly(decl) ==
    IF decl.type.kind # "struct" THEN FALSE
    ELSE Len(decl.type.fields) > 0 /\ decl.type.fields[1].default # VNil

\* hasDefaults
hasDefaults(decl) ==
    IF decl.type.kind # "struct" THEN FALSE
    ELSE \E i \in 1..Len(decl.type.fields) : decl.type.fields[i].default # VNil

NoFieldError == [field |-> "", cause |-> NoError]

\* the field loop returning after the first initializer it emits
RECURSIVE generateFieldsStopAfterFirst(_, _, _)
generateFieldsStopAfterFirst(fields, out, ord) ==
    IF Len(fields) = 0 THEN [out |-> out, err |-> NoFieldError]
    ELSE LET f == Head(fields)
             fmt == formatDefaultValue(f.type, f.default, MaxLineLength(out), ord)
         IN  IF f.default = VNil \/ f.name = additionalProperties
                 THEN generateFieldsStopAfterFirst(Tail(fields), out, ord)
             ELSE IF fmt.err # NoError
                 THEN [out |-> out, err |-> [field |-> f.name, cause |-> fmt.err]]
             ELSE [out |-> Printlnf(out, CatAll(<< Line(<< f.name, ": " >>),
                                                   fmt.str, Line(<< "," >>) >>)),
                   err |-> NoFieldError]

\* the field loop visiting the fields last to first
RECURSIVE generateFieldsReversed(_, _, _)
generateFieldsReversed(fields, out, ord) ==
    IF Len(fields) = 0 THEN [out |-> out, err |-> NoFieldError]
    ELSE LET f == Head(fields)
             fmt == formatDefaultValue(f.type, f.default, MaxLineLength(out), ord)
             rest == generateFieldsReversed(Tail(fields), out, ord)
         IN  IF rest.err # NoFieldError THEN rest
             ELSE IF f.default = VNil \/ f.name = additionalProperties THEN rest
             ELSE IF fmt.err # NoError
                 THEN [out |-> rest.out, err |-> [field |-> f.name, cause |-> fmt.err]]
             ELSE [out |-> Printlnf(rest.out, CatAll(<< Line(<< f.name, ": " >>),
                                                        fmt.str, Line(<< "," >>) >>)),
                   err |-> NoFieldError]

\* the field loop of generate: one "<Name>: <default>," per field with a
\* default, the catch-all field skipped, stopping at the first error
RECURSIVE generateFields(_, _, _)
generateFields(fields, out, ord) ==
    IF Len(fields) = 0 THEN [out |-> out, err |-> NoFieldError]
    ELSE LET f == Head(fields)
             fmt == formatDefaultValue(f.type, f.default, MaxLineLength(out), ord)
         IN  IF f.default = VNil \/ f.name = additionalProperties
                 THEN generateFields(Tail(fields), out, ord)
             ELSE IF fmt.err # NoError
                 THEN [out |-> out, err |-> [field |-> f.name, cause |-> fmt.err]]
             ELSE generateFields(Tail(fields),
                                 Printlnf(out, CatAll(<< Line(<< f.name, ": " >>),
                                                         fmt.str, Line(<< "," >>) >>)),
                                 ord)

\* the closing lines with the second Indent(-1) left out
generateCloseOneDedent(out) ==
    Printlnf(Printlnf(Indent(out, -1), Line(<< "}" >>)), Line(<< "}" >>))

\* the two closing lines of generate
generateClose(out) ==
    Printlnf(Indent(Printlnf(Indent(out, -1), Line(<< "}" >>)), -1), Line(<< "}" >>))

\* the closure generate returns, applied to emitter out: the emitter after
\* the call and the error returned
generate(decl, out, ord) ==
    IF decl.type.kind # "struct" THEN [out |-> out, err |-> NoFieldError]
    ELSE LET typeName == decl.name
             o1 == Commentf(out, << "New" \o typeName, "creates", "a", "new", typeName,
                                    "with", "default", "values." >>)
             o2 == Printlnf(o1, Line(<< "func New" \o typeName \o "() " \o typeName \o " ", "{" >>))
             o3 == Indent(o2, 1)
             o4 == Printlnf(o3, Line(<< "return " \o typeName, "{" >>))
             o5 == Indent(o4, 1)
             loop == generateFields(decl.type.fields, o5, ord)
         IN  IF loop.err # NoFieldError THEN loop
             ELSE [out |-> generateClose(loop.out), err |-> NoFieldError]

----------------------------------------------------------------------------
(* The inputs: type declarations and emitters *)

FieldTypes ==
    { NamedType("Inner"), DurationType, PrimitiveType("int"), PrimitiveType("string"),
      ArrayType(PrimitiveType("string")), UnrenderableType }

ObjectAB == VMap([k \in {"a", "b"} |-> IF k = "a" THEN VString("x") ELSE VNumber(5)])
ObjectNested == VMap([k \in {"b"} |-> ObjectAB])

DefaultValues ==
    { VNil, VString("PT30S"), VString("-P1DT90M"), VString(""), VString("P30S"),
      VString("bogus"), VNumber(5),
      VSlice(<<>>), VSlice(<< VString("x"), VNumber(5) >>),
      VSlice(<< VSlice(<< VString("x") >>), VString("y") >>),
      VMap(<<>>), ObjectAB, ObjectNested,
      VTypedSlice("[]string", << VString("x") >>) }

\* a field's type and default
FieldSpec(type, default) == [type |-> type, default |-> default]

\* every pairing of a type with a default
AllFieldSpecs == { FieldSpec(t, d) : t \in FieldTypes, d \in DefaultValues }

\* the pairings the fields of a struct with several fields are drawn from:
\* no default, one-line defaults, multi-line defaults, failing defaults
LoopFieldSpecs ==
    { FieldSpec(PrimitiveType("int"), VNil),
      FieldSpec(PrimitiveType("int"), VNumber(5)),
      FieldSpec(PrimitiveType("int"), VString("x")),
      FieldSpec(DurationType, VString("PT30S")),
      FieldSpec(DurationType, VString("")),
      FieldSpec(DurationType, VNumber(5)),
      FieldSpec(ArrayType(PrimitiveType("string")), VSlice(<< VString("x"), VString("y") >>)),
      FieldSpec(NamedType("Inner"), ObjectAB) }

FieldNameAt(i) == "Field" \o ToString(i)

\* the struct fields of the given specs; field ap (if any) is the catch-all
MakeFields(specs, ap) ==
    [i \in 1..Len(specs) |->
        [name |-> IF i = ap THEN additionalProperties ELSE FieldNameAt(i),
         type |-> specs[i].type,
         default |-> specs[i].default]]

StructDecl(fields) == [name |-> "Outer", type |-> [kind |-> "struct", fields |-> fields]]

\* a declaration whose type is not a struct
AliasDecl == [name |-> "Outer", type |-> PrimitiveType("string")]

Decls ==
    {AliasDecl}
    \cup UNION { { StructDecl(MakeFields(specs, ap)) :
                     specs \in [1..n -> LoopFieldSpecs], ap \in 0..n } : n \in 0..MaxFields }
    \cup { StructDecl(MakeFields(<< spec >>, ap)) : spec \in AllFieldSpecs, ap \in 0..1 }

LineLengths == {40, 80}

\* the emitters the closure may be handed: at the start of a line, at some
\* indentation level
Emitters ==
    { [NewEmitter(l) EXCEPT !.indent = i] : l \in LineLengths, i \in 0..MaxIndent }

----------------------------------------------------------------------------
(* The state machine *)

VARIABLES
    decl,               \* g.decl: the type declaration of the constructorGenerator
    emitter,            \* the emitter handed to the closure generate returns
    hasDefaultsResult,  \* << >>, or << b >> once hasDefaults() has returned b
    runs                \* per execution of the closure: the emitter after it and its error

vars == << decl, emitter, hasDefaultsResult, runs >>

Init ==
    /\ decl \in Decls
    /\ emitter \in Emitters
    /\ hasDefaultsResult = <<>>
    /\ runs = <<>>

\* g.hasDefaults()
HasDefaults ==
    /\ hasDefaultsResult = <<>>
    /\ hasDefaultsResult' = << hasDefaults(decl) >>
    /\ UNCHANGED << decl, emitter, runs >>

\* g.generate()(out) in one execution of the generator; every execution gets
\* the same declaration and an equal emitter, and its maps hand out their keys
\* in an order of their own
Generate ==
    /\ Len(runs) < MaxRuns
    /\ \E ord \in KeyOrders : runs' = Append(runs, generate(decl, emitter, ord))
    /\ UNCHANGED << decl, emitter, hasDefaultsResult >>

Next == HasDefaults \/ Generate

Spec == Init /\ [][Next]_vars

----------------------------------------------------------------------------
(* Vocabulary of the properties *)

\* the fields of the declaration (none if it is not a struct)
Fields == IF decl.type.kind = "struct" THEN decl.type.fields ELSE <<>>

HasDefault(i) == Fields[i].default # VNil
IsCatchAll(i) == Fields[i].name = additionalProperties

\* the text execution r emitted, as lines
Out(r) == runs[r].out.sb
Succeeded(r) == runs[r].err = NoFieldError

StartsWith(line, prefix) ==
    Len(line) >= Len(prefix) /\ SubSeq(line, 1, Len(prefix)) = prefix

ContainsLines(text, block) ==
    \E n \in 1..(Len(text) - Len(block) + 1) : SubSeq(text, n, n + Len(block) - 1) = block

\* how a field initializer starts: two levels deeper than the emitter was
InitPrefix(i) == Tabs(emitter.indent + 2) \o << Fields[i].name, ": " >>

\* the lines of execution r at which an initializer of field i starts
InitLines(r, i) == { n \in 1..Len(Out(r)) : StartsWith(Out(r)[n], InitPrefix(i)) }

\* the lines of execution r at which any field initializer starts: two tabs
\* deeper than the emitter, then a name, then ": "
AnyInitLines(r) ==
    { n \in 1..Len(Out(r)) :
        LET line == Out(r)[n]
            k == emitter.indent + 2
        IN  /\ Len(line) >= k + 2
            /\ SubSeq(line, 1, k) = Tabs(k)
            /\ line[k + 1] # "\t"
            /\ line[k + 2] = ": " }

\* "<FieldName>: <formatted default>," as execution ord formats it
InitializerText(i, ord) ==
    CatAll(<< Line(InitPrefix(i)),
              formatDefaultValue(Fields[i].type, Fields[i].default,
                                 emitter.maxLineLength, ord).str,
              Line(<< "," >>) >>)

----------------------------------------------------------------------------
(* C1 *)

\* C1 as stated: whenever generate succeeds, the emitted text contains the
\* initializer "<FieldName>: <formatted default>," of every field whose
\* DefaultValue is non-nil.
C1_EveryDefaultInitialized ==
    \A r \in DOMAIN runs : Succeeded(r) =>
        \A i \in DOMAIN Fields : HasDefault(i) =>
            \A ord \in KeyOrders : ContainsLines(Out(r), InitializerText(i, ord))

\* C1 amended: whenever generate succeeds, the emitted text contains the
\* initializer "<FieldName>: <formatted default>," of every field whose
\* DefaultValue is non-nil, except the field named AdditionalProperties.
C1_DefaultCoverage ==
    \A r \in DOMAIN runs : Succeeded(r) =>
        \A i \in DOMAIN Fields : HasDefault(i) /\ ~IsCatchAll(i) =>
            \A ord \in KeyOrders : ContainsLines(Out(r), InitializerText(i, ord))

\* a successful execution on a struct with two fields that both have defaults
C1_Witness ==
    \E r \in DOMAIN runs :
        /\ Succeeded(r)
        /\ Len(Fields) = 2
        /\ \A i \in DOMAIN Fields : HasDefault(i) /\ ~IsCatchAll(i)

----------------------------------------------------------------------------
(* C2 *)

\* a default whose shape does not fit the field's type
ShapeMismatch(type, v) ==
    \/ type.kind = "named" /\ v.kind # "map"
    \/ type.kind = "duration" /\ v.kind # "string"
    \/ type.kind = "primitive" /\ type.name = "int" /\ v.kind # "number"
    \/ type.kind = "primitive" /\ type.name = "string" /\ v.kind # "string"
    \/ type.kind = "array" /\ v.kind \notin {"slice", "typedslice"}

\* C2 as stated: for a field whose default does not fit its type,
\* formatDefaultValue returns an error, never a string, and generate fails
\* instead of emitting an initializer.
C2_MismatchFailsGeneration ==
    \A r \in DOMAIN runs : \A i \in DOMAIN Fields :
        (HasDefault(i) /\ ~IsCatchAll(i) /\ ShapeMismatch(Fields[i].type, Fields[i].default))
        => /\ \A ord \in KeyOrders :
                formatDefaultValue(Fields[i].type, Fields[i].default,
                                   emitter.maxLineLength, ord).err # NoError
           /\ ~Succeeded(r)
           /\ InitLines(r, i) = {}

----------------------------------------------------------------------------
(* C3 *)

\* a field of a named type whose default is an object, and which generate
\* does not skip
NamedObjectField(i) ==
    /\ Fields[i].type.kind = "named"
    /\ Fields[i].default.kind = "map"
    /\ ~IsCatchAll(i)

ConstructorCall(typeName) == "New" \o typeName \o "()"

\* the lines of "<Key>: <dump>," for each of the keys, in the order given
RECURSIVE LiteralEntryLines(_, _)
LiteralEntryLines(m, keys) ==
    IF Len(keys) = 0 THEN <<>>
    ELSE CatAll(<< Line(<< upperFirst(Head(keys)), ": " >>),
                   Sdump(m[Head(keys)], CHOOSE o \in KeyOrders : TRUE),
                   Line(<< "," >>) >>)
         \o LiteralEntryLines(m, Tail(keys))

\* the lines of field i's initializer as a composite literal holding the
\* keys of its default object in sorted order
CompositeLiteralLines(i) ==
    LET m == Fields[i].default.m
        keys == SelectSeq(KeyAlphabet, LAMBDA k : k \in DOMAIN m)
        name == Fields[i].type.name
    IN  IF Len(keys) = 0 THEN << InitPrefix(i) \o << name, "{", "}", "," >> >>
        ELSE << InitPrefix(i) \o << name, "{" >> >>
             \o LiteralEntryLines(m, keys)
             \o << << "}", "," >> >>

\* C3 as stated: the initializer of a named-type field with an object
\* default calls the named type's constructor New<Name>().
C3_RecursesIntoConstructor ==
    \A r \in DOMAIN runs : Succeeded(r) =>
        \A i \in DOMAIN Fields : NamedObjectField(i) =>
            \E n \in InitLines(r, i) : \E t \in DOMAIN Out(r)[n] :
                Out(r)[n][t] = ConstructorCall(Fields[i].type.name)

\* C3 amended: the initializer of a named-type field with an object default
\* is the composite literal "<Name>{" + one "<Key>: <dump>," entry per key of
\* the default object, in sorted key order, + "}"; no line of the emitted text
\* calls New<Name>().
C3_CompositeLiteral ==
    \A r \in DOMAIN runs : Succeeded(r) =>
        \A i \in DOMAIN Fields : NamedObjectField(i) =>
            /\ ContainsLines(Out(r), CompositeLiteralLines(i))
            /\ \A n \in DOMAIN Out(r) : \A t \in DOMAIN Out(r)[n] :
                    Out(r)[n][t] # ConstructorCall(Fields[i].type.name)

\* a successful execution on a named-type field whose default has two keys
C3_Witness ==
    \E r \in DOMAIN runs : \E i \in DOMAIN Fields :
        /\ Succeeded(r)
        /\ NamedObjectField(i)
        /\ Cardinality(DOMAIN Fields[i].default.m) = 2

----------------------------------------------------------------------------
(* C4 *)

\* the ISO 8601 strings among the defaults that denote a duration
ValidIsoStrings == {"PT30S", "-P1DT90M"}

\* the seconds each denotes
IsoSeconds(s) ==
    CASE s = "PT30S" -> 30
      [] s = "-P1DT90M" -> 0 - (86400 + 90 * 60)

\* a duration field generate does not skip, with a valid ISO 8601 default
ValidDurationField(i) ==
    /\ Fields[i].type.kind = "duration"
    /\ ~IsCatchAll(i)
    /\ Fields[i].default.kind = "string"
    /\ Fields[i].default.s \in ValidIsoStrings

\* the tokens between the first two quote tokens of the line: the string
\* literal the emitted expression hands to its parser at call time
QuotedLiteral(line) ==
    LET quotes == { t \in DOMAIN line : line[t] = "\"" }
        first == CHOOSE t \in quotes : \A u \in quotes : t <= u
        second == CHOOSE t \in quotes \ {first} : \A u \in quotes \ {first} : t <= u
    IN  SubSeq(line, first + 1, second - 1)

\* C4 as stated: the emitted expression parses the ISO 8601 string itself
\* at call time: the string literal in the emitted expression is the ISO
\* string of the default.
C4_ParsesIsoAtCallTime ==
    \A r \in DOMAIN runs : Succeeded(r) =>
        \A i \in DOMAIN Fields : ValidDurationField(i) =>
            \A n \in InitLines(r, i) :
                QuotedLiteral(Out(r)[n]) \in { Chars(Fields[i].default.s),
                                               << Fields[i].default.s >> }

\* C4 amended: the ISO 8601 string is parsed and converted at generation
\* time; the emitted expression is
\*   func() time.Duration { d, _ := time.ParseDuration("<go string>"); return d }()
\* whose Go duration string always parses at call time (the discarded error
\* is nil) to the duration the ISO string denotes ("PT30S": 30 seconds).
C4_DurationValue ==
    \A r \in DOMAIN runs : Succeeded(r) =>
        \A i \in DOMAIN Fields : ValidDurationField(i) =>
            /\ InitLines(r, i) # {}
            /\ \A n \in InitLines(r, i) :
                LET line == Out(r)[n]
                    lit == QuotedLiteral(line)
                IN  /\ line = InitPrefix(i)
                              \o << DurationExprHead, "{", DurationExprCall, "\"" >>
                              \o lit
                              \o << "\"", DurationExprTail, "}", "()", "," >>
                    /\ ParseDuration(lit).ok
                    /\ ParseDuration(lit).d = IsoSeconds(Fields[i].default.s)

\* a successful execution on a duration field whose default is "PT30S"
C4_Witness ==
    \E r \in DOMAIN runs : \E i \in DOMAIN Fields :
        /\ Succeeded(r)
        /\ ValidDurationField(i)
        /\ Fields[i].default.s = "PT30S"
        /\ \E n \in InitLines(r, i) : ParseDuration(QuotedLiteral(Out(r)[n])).d = 30

----------------------------------------------------------------------------
(* C5 *)

\* C5: all executions of generate on the same declaration and emitter end
\* with the same text, indentation and error, whatever the order in which
\* their maps hand out their keys.
C5_Deterministic ==
    \A r1, r2 \in DOMAIN runs : runs[r1] = runs[r2]

\* two successful executions on a named-type field whose default is an
\* object of two keys
C5_Witness ==
    /\ Len(runs) >= 2
    /\ Succeeded(1) /\ Succeeded(2)
    /\ \E i \in DOMAIN Fields :
        /\ ~IsCatchAll(i)
        /\ Fields[i].type.kind = "named"
        /\ Fields[i].default = ObjectAB

----------------------------------------------------------------------------
(* C6 *)

\* a field generate does not skip whose default is a []interface{}
SliceDefaultField(i) == Fields[i].default.kind = "slice" /\ ~IsCatchAll(i)

\* the lines of "<dump>," for each element, in the order given
RECURSIVE ElementLines(_)
ElementLines(elems) ==
    IF Len(elems) = 0 THEN <<>>
    ELSE Cat(Sdump(Head(elems), CHOOSE o \in KeyOrders : TRUE), Line(<< "," >>))
         \o ElementLines(Tail(elems))

\* C6: in every execution, no field has two initializers, the initializers
\* stand in the order of the struct's fields, and the element lines of a
\* slice default follow its opening line in the order of the slice; a
\* successful execution emits as many initializers as there are fields with
\* a default that generate does not skip.
C6_FieldOrder ==
    \A r \in DOMAIN runs :
        /\ \A i \in DOMAIN Fields : Cardinality(InitLines(r, i)) <= 1
        /\ \A i, j \in DOMAIN Fields : i < j =>
               \A n \in InitLines(r, i) : \A m \in InitLines(r, j) : n < m
        /\ \A i \in DOMAIN Fields : SliceDefaultField(i) /\ Len(Fields[i].default.elems) > 0 =>
               \A n \in InitLines(r, i) :
                   LET lines == ElementLines(Fields[i].default.elems)
                   IN  /\ n + Len(lines) <= Len(Out(r))
                       /\ SubSeq(Out(r), n + 1, n + Len(lines)) = lines
        /\ Succeeded(r) =>
               Cardinality(AnyInitLines(r))
                   = Cardinality({ i \in DOMAIN Fields : HasDefault(i) /\ ~IsCatchAll(i) })

\* a successful execution on two fields with defaults, the second a slice
\* of two elements
C6_Witness ==
    \E r \in DOMAIN runs :
        /\ Succeeded(r)
        /\ Len(Fields) = 2
        /\ InitLines(r, 1) # {}
        /\ InitLines(r, 2) # {}
        /\ SliceDefaultField(2)
        /\ Len(Fields[2].default.elems) = 2

----------------------------------------------------------------------------
(* C7 *)

\* a field with a []interface{} default that reaches formatSliceValue and
\* whose type renders
RenderedSliceField(i) ==
    /\ SliceDefaultField(i)
    /\ Fields[i].type.kind \notin {"duration", "unrenderable"}

\* the Go text of a type
RECURSIVE GoTypeTokens(_)
GoTypeTokens(type) ==
    IF type.kind = "array" THEN << "[]" >> \o GoTypeTokens(type.elem) ELSE << type.name >>

\* the number of lines litter dumps a value on
RECURSIVE DumpLineCount(_)
RECURSIVE SumDumpLineCounts(_)
SumDumpLineCounts(values) ==
    IF Len(values) = 0 THEN 0
    ELSE DumpLineCount(Head(values)) + SumDumpLineCounts(Tail(values))

DumpLineCount(v) ==
    CASE v.kind \in {"slice", "typedslice"} ->
            IF Len(v.elems) = 0 THEN 1 ELSE 2 + SumDumpLineCounts(v.elems)
      [] v.kind = "map" ->
            IF DOMAIN v.m = {} THEN 1
            ELSE 2 + SumDumpLineCounts([i \in 1..Cardinality(DOMAIN v.m) |->
                        v.m[SelectSeq(KeyAlphabet, LAMBDA k : k \in DOMAIN v.m)[i]]])
      [] OTHER -> 1

IsScalar(v) == v.kind \in {"nil", "string", "number"}

\* the first line after line n of execution r that starts with a tab: where
\* the initializer starting at line n ends
BlockEnd(r, n) ==
    CHOOSE m \in (n + 1)..Len(Out(r)) :
        /\ StartsWith(Out(r)[m], << "\t" >>)
        /\ \A k \in (n + 1)..(m - 1) : ~StartsWith(Out(r)[k], << "\t" >>)

\* the opening and closing of a slice initializer starting at line n
SliceLiteralFrame(r, i, n) ==
    LET elems == Fields[i].default.elems
        type == GoTypeTokens(Fields[i].type)
    IN  IF Len(elems) = 0
            THEN /\ Out(r)[n] = InitPrefix(i) \o type \o << "{", "}", "," >>
                 /\ BlockEnd(r, n) = n + 1
            ELSE /\ Out(r)[n] = InitPrefix(i) \o type \o << "{" >>
                 /\ Out(r)[BlockEnd(r, n) - 1] = << "}", "," >>

\* C7 as stated: a slice default of one or more elements is emitted as
\* "<type>{", exactly one line per element, and "}"; an empty one as "<type>{}".
C7_OneLinePerElement ==
    \A r \in DOMAIN runs : Succeeded(r) =>
        \A i \in DOMAIN Fields : RenderedSliceField(i) =>
            /\ InitLines(r, i) # {}
            /\ \A n \in InitLines(r, i) :
                /\ SliceLiteralFrame(r, i, n)
                /\ Len(Fields[i].default.elems) > 0 =>
                       BlockEnd(r, n) - n = Len(Fields[i].default.elems) + 2

\* C7 amended: a slice default of a field whose type is not a duration and
\* renders is emitted as "<type>{}" on one line if empty, and else as
\* "<type>{", the dump of each element followed by ",", and "}"; the element
\* lines are as many as the dumps of the elements have lines, which is one
\* per element when every element is a scalar (nil, string, number).
C7_SliceLiteral ==
    \A r \in DOMAIN runs : Succeeded(r) =>
        \A i \in DOMAIN Fields : RenderedSliceField(i) =>
            /\ InitLines(r, i) # {}
            /\ \A n \in InitLines(r, i) :
                LET elems == Fields[i].default.elems
                IN  /\ SliceLiteralFrame(r, i, n)
                    /\ Len(elems) > 0 =>
                           BlockEnd(r, n) - n = SumDumpLineCounts(elems) + 2
                    /\ (Len(elems) > 0 /\ \A k \in DOMAIN elems : IsScalar(elems[k])) =>
                           BlockEnd(r, n) - n = Len(elems) + 2

\* a successful execution on an array field whose default is a slice of two
\* scalars, emitted on four lines
C7_Witness ==
    \E r \in DOMAIN runs : \E i \in DOMAIN Fields :
        /\ Succeeded(r)
        /\ RenderedSliceField(i)
        /\ Fields[i].type.kind = "array"
        /\ Len(Fields[i].default.elems) = 2
        /\ \A k \in DOMAIN Fields[i].default.elems : IsScalar(Fields[i].default.elems[k])
        /\ \E n \in InitLines(r, i) : BlockEnd(r, n) - n = 4

----------------------------------------------------------------------------
(* C8 *)

\* the error a duration field's default must be refused with, if any
ExpectedDurationError(v) ==
    IF v.kind # "string" THEN ErrDefaultDurationIsNotAString
    ELSE IF v.s = "" THEN ErrDurationIsEmpty
    ELSE IF v.s \notin ValidIsoStrings THEN ErrCannotConvertISO8601ToGoFormat
    ELSE NoError

\* a duration field with a default that is no valid ISO 8601 string
BadDurationField(i) ==
    /\ Fields[i].type.kind = "duration"
    /\ HasDefault(i)
    /\ ExpectedDurationError(Fields[i].default) # NoError

\* a field generate does not skip whose default cannot be formatted
FailingField(i) ==
    /\ HasDefault(i)
    /\ ~IsCatchAll(i)
    /\ \/ BadDurationField(i)
       \/ Fields[i].type.kind = "unrenderable" /\ Fields[i].default.kind = "slice"

FormatError(i) ==
    formatDefaultValue(Fields[i].type, Fields[i].default, emitter.maxLineLength,
                       CHOOSE o \in KeyOrders : TRUE).err

\* C8 as stated: for a duration field whose default is not a string, is
\* empty, or is no ISO 8601 duration, formatDefaultValue returns the matching
\* error, and generate returns an error naming that field and emits no
\* initializer for it nor for any later field.
C8_DurationErrorNamesField ==
    \A r \in DOMAIN runs : \A i \in DOMAIN Fields : BadDurationField(i) =>
        /\ FormatError(i) = ExpectedDurationError(Fields[i].default)
        /\ runs[r].err = [field |-> Fields[i].name,
                          cause |-> ExpectedDurationError(Fields[i].default)]
        /\ \A j \in DOMAIN Fields : j >= i => InitLines(r, j) = {}

\* C8 amended: formatDefaultValue returns the matching error; unless the
\* field is named AdditionalProperties (which generate skips), generate
\* returns an error naming the first field whose default cannot be formatted
\* (this field, with the matching error, if no earlier one fails) and emits
\* no initializer for that field nor for any later field.
C8_DurationErrors ==
    \A r \in DOMAIN runs : \A i \in DOMAIN Fields : BadDurationField(i) =>
        /\ FormatError(i) = ExpectedDurationError(Fields[i].default)
        /\ ~IsCatchAll(i) =>
            LET first == CHOOSE j \in DOMAIN Fields :
                             FailingField(j) /\ \A k \in 1..(j - 1) : ~FailingField(k)
            IN  /\ ~Succeeded(r)
                /\ runs[r].err.field = Fields[first].name
                /\ first = i =>
                       runs[r].err.cause = ExpectedDurationError(Fields[i].default)
                /\ \A j \in DOMAIN Fields : j >= first => InitLines(r, j) = {}

\* an execution that emits the first field's initializer and fails on the
\* second field, a duration with an empty default
C8_Witness ==
    \E r \in DOMAIN runs :
        /\ Len(Fields) = 2
        /\ InitLines(r, 1) # {}
        /\ BadDurationField(2)
        /\ runs[r].err = [field |-> Fields[2].name, cause |-> ErrDurationIsEmpty]

----------------------------------------------------------------------------
(* C9 *)

\* the only fields with a default are named AdditionalProperties
OnlyCatchAllHasDefault ==
    /\ \E i \in DOMAIN Fields : HasDefault(i)
    /\ \A i \in DOMAIN Fields : HasDefault(i) => IsCatchAll(i)

\* C9 as stated: hasDefaults() is true exactly when a successful generate()
\* emits at least one field initializer.
C9_HasDefaultsIffInitializer ==
    \A r \in DOMAIN runs : (hasDefaultsResult # <<>> /\ Succeeded(r)) =>
        (hasDefaultsResult[1] <=> AnyInitLines(r) # {})

\* C9 amended: hasDefaults() is true exactly when some field has a default;
\* a successful generate() emits at least one initializer exactly when some
\* field not named AdditionalProperties has a default. The two agree unless
\* the only defaults are on the AdditionalProperties field, where hasDefaults()
\* is true and the constructor body is empty. A declaration that is not a
\* struct yields false and no output.
C9_HasDefaultsAndGenerate ==
    \A r \in DOMAIN runs : (hasDefaultsResult # <<>> /\ Succeeded(r)) =>
        /\ hasDefaultsResult[1] <=> \E i \in DOMAIN Fields : HasDefault(i)
        /\ AnyInitLines(r) # {} <=> \E i \in DOMAIN Fields : HasDefault(i) /\ ~IsCatchAll(i)
        /\ hasDefaultsResult[1] <=> (AnyInitLines(r) # {} \/ OnlyCatchAllHasDefault)
        /\ decl.type.kind # "struct" => (~hasDefaultsResult[1] /\ runs[r].out = emitter)

\* hasDefaults() returned true on a struct whose second field alone has a
\* default, and a successful execution emitted its initializer
C9_Witness ==
    \E r \in DOMAIN runs :
        /\ hasDefaultsResult = << TRUE >>
        /\ Succeeded(r)
        /\ Len(Fields) = 2
        /\ ~HasDefault(1)
        /\ InitLines(r, 2) # {}

----------------------------------------------------------------------------
(* C10 *)

\* the tokens of a text, line after line
RECURSIVE Flatten(_)
Flatten(text) == IF Len(text) = 0 THEN <<>> ELSE Head(text) \o Flatten(Tail(text))

\* the brace nesting depth after each token
RECURSIVE BraceDepths(_, _)
BraceDepths(tokens, depth) ==
    IF Len(tokens) = 0 THEN <<>>
    ELSE LET d == CASE Head(tokens) = "{" -> depth + 1
                    [] Head(tokens) = "}" -> depth - 1
                    [] OTHER -> depth
         IN  << d >> \o BraceDepths(Tail(tokens), d)

\* every "}" closes an open "{", all are closed at the end, and the first
\* "{" is closed by the last token and not before
BracesBalanced(text) ==
    LET tokens == Flatten(text)
        depths == BraceDepths(tokens, 0)
        opened == { t \in DOMAIN tokens : tokens[t] = "{" }
    IN  /\ \A t \in DOMAIN depths : depths[t] >= 0
        /\ Len(depths) > 0 => depths[Len(depths)] = 0
        /\ \A t \in DOMAIN depths :
               (t < Len(depths) /\ \E o \in opened : o <= t) => depths[t] >= 1

\* C10: after an execution of the closure that returns nil, the emitter's
\* indentation level is the one it had before, the braces of the emitted
\* text are balanced, and for a struct the text ends with the line closing
\* the composite literal and the line closing the function.
C10_IndentBalanced ==
    \A r \in DOMAIN runs : Succeeded(r) =>
        /\ runs[r].out.indent = emitter.indent
        /\ BracesBalanced(Out(r))
        /\ decl.type.kind = "struct" =>
            LET n == Len(Out(r))
            IN  /\ n >= 5
                /\ Out(r)[n] = <<>>
                /\ Out(r)[n - 1] = Tabs(emitter.indent) \o << "}" >>
                /\ Out(r)[n - 2] = Tabs(emitter.indent + 1) \o << "}" >>
                /\ Cardinality({ k \in 1..n : Out(r)[k] = Out(r)[n - 1] }) = 1
                /\ Cardinality({ k \in 1..n : Out(r)[k] = Out(r)[n - 2] }) = 1

\* a successful execution on a struct of two fields, one with a multi-line
\* default and one without a default, on an indented emitter
C10_Witness ==
    \E r \in DOMAIN runs :
        /\ Succeeded(r)
        /\ emitter.indent = 1
        /\ Len(Fields) = 2
        /\ ~HasDefault(1)
        /\ SliceDefaultField(2)
        /\ InitLines(r, 2) # {}

====
